---- MODULE Spec2Model ----
(***************************************************************************)
(* Model of salt/modules/inspectlib/query.py: the Query scope dispatcher   *)
(* and its collectors.  Text is modelled as sequences of one-character     *)
(* strings so that strip(), split() and int() are computed, not assumed.   *)
(***************************************************************************)
EXTENDS Integers, Sequences, FiniteSets, TLC

VARIABLES
    pc,              \* position of the caller: new, failed, idle, all_*, done
    attrs,           \* attributes the Query instance holds (its __dict__ keys)
    scope,           \* self.scope
    db,              \* state of the store handle self.db: none, closed, open
    local_identity,  \* self.local_identity
    op,              \* the method being executed / last executed
    args,            \* inputs of the call in progress (kwargs and environment)
    data,            \* the dict a running _all has built so far
    invoked,         \* sub-collectors and capabilities called, in call order
    ret              \* outcome of the finished call: [exc, val]

vars == <<pc, attrs, scope, db, local_identity, op, args, data, invoked, ret>>

(***************************************************************************)
(* Bounds of the model.                                                    *)
(***************************************************************************)
MaxLines == 2        \* lines of /etc/passwd
MaxGroupLines == 1   \* lines of /etc/group
MaxPkgs == 1         \* rows of inspector_pkg
MaxId == 3           \* numeric ids handed to _id_resolv are 0..MaxId

(***************************************************************************)
(* Python values.                                                          *)
(***************************************************************************)
EmptyDict == [k \in {} |-> k]
NA == "N/A"
NoExc == "none"

Returns(v) == [exc |-> NoExc, val |-> v]
Raises(e) == [exc |-> e, val |-> NA]
NoRet == [exc |-> NoExc, val |-> "none"]

DictSet(d, k, v) == [x \in (DOMAIN d) \cup {k} |-> IF x = k THEN v ELSE d[x]]

\* dict.items() yields the entries in an order the program does not control
ItemOrders(d) ==
    LET n == Cardinality(DOMAIN d)
    IN  {o \in [1..n -> DOMAIN d] : \A i, j \in 1..n : o[i] = o[j] => i = j}

(***************************************************************************)
(* Text primitives: str.strip(), str.split(sep), int(str), str.lower().    *)
(***************************************************************************)
Whitespace == {" ", "\n", "\t"}
Digits == <<"0", "1", "2", "3", "4", "5", "6", "7", "8", "9">>

RECURSIVE LStrip(_)
LStrip(s) ==
    IF s # <<>> /\ Head(s) \in Whitespace THEN LStrip(Tail(s)) ELSE s

RECURSIVE RStrip(_)
RStrip(s) ==
    IF s # <<>> /\ s[Len(s)] \in Whitespace
    THEN RStrip(SubSeq(s, 1, Len(s) - 1))
    ELSE s

Strip(s) == RStrip(LStrip(s))

Contains(s, c) == \E i \in 1..Len(s) : s[i] = c

RECURSIVE Split(_, _)
Split(s, sep) ==
    IF ~Contains(s, sep)
    THEN <<s>>
    ELSE LET i == CHOOSE k \in 1..Len(s) :
                      s[k] = sep /\ \A j \in 1..(k - 1) : s[j] # sep
         IN  <<SubSeq(s, 1, i - 1)>> \o Split(SubSeq(s, i + 1, Len(s)), sep)

RECURSIVE Join(_, _)
Join(fields, sep) ==
    IF Len(fields) = 0 THEN <<>>
    ELSE IF Len(fields) = 1 THEN fields[1]
    ELSE fields[1] \o <<sep>> \o Join(Tail(fields), sep)

DigitValue(c) == (CHOOSE i \in 1..10 : Digits[i] = c) - 1
IsDigit(c) == \E i \in 1..10 : Digits[i] = c

RECURSIVE DigitsValue(_)
DigitsValue(s) ==
    IF s = <<>> THEN 0
    ELSE 10 * DigitsValue(SubSeq(s, 1, Len(s) - 1)) + DigitValue(s[Len(s)])

\* int(text): surrounding whitespace and one sign are accepted, then digits only
CanParseInt(text) ==
    LET t == Strip(text)
        body == IF t # <<>> /\ Head(t) \in {"+", "-"} THEN Tail(t) ELSE t
    IN  body # <<>> /\ \A i \in 1..Len(body) : IsDigit(body[i])

ParseInt(text) ==
    LET t == Strip(text)
    IN  IF Head(t) = "-" THEN 0 - DigitsValue(Tail(t))
        ELSE IF Head(t) = "+" THEN DigitsValue(Tail(t))
        ELSE DigitsValue(t)

UpperCase == <<"A", "B", "D", "E", "H", "I", "N", "R", "S", "T", "U">>
LowerCase == <<"a", "b", "d", "e", "h", "i", "n", "r", "s", "t", "u">>

LowerChar(c) ==
    IF \E i \in 1..Len(UpperCase) : UpperCase[i] = c
    THEN LowerCase[CHOOSE i \in 1..Len(UpperCase) : UpperCase[i] = c]
    ELSE c

Lower(s) == [i \in 1..Len(s) |-> LowerChar(s[i])]

(***************************************************************************)
(* Files of the host: the contents /etc/passwd and /etc/group may have.    *)
(***************************************************************************)
PasswdFieldCount == 7
GroupFieldCount == 4

PasswdLines == {
    Join(<< <<"a">>, <<"x">>, <<"1">>, <<"2">>, <<"G">>, <<"/">>, <<"s", "h">> >>, ":") \o <<"\n">>,
    Join(<< <<"b">>, <<"*">>, <<"2">>, <<"2">>, <<"G">>, <<"/">>, <<"s", "h">> >>, ":") \o <<"\n">>,
    Join(<< <<"c">>, <<"!", "x">>, <<"1">>, <<"3">>, <<"G">>, <<"/">>, <<"s", "h">> >>, ":") \o <<"\n">>,
    Join(<< <<"d">>, <<"x">>, <<"z">>, <<"2">>, <<"G">>, <<"/">>, <<"s", "h">> >>, ":") \o <<"\n">>,
    Join(<< <<"e">>, <<"x">>, <<"3">> >>, ":") \o <<"\n">>,
    <<"#", "\n">>
}

GroupLines == {
    Join(<< <<"g">>, <<"x">>, <<"1">>, <<"a", ",", "b">> >>, ":") \o <<"\n">>,
    Join(<< <<"h">>, <<"x">>, <<"2">>, <<>> >>, ":") \o <<"\n">>,
    Join(<< <<"k">>, <<"x">> >>, ":") \o <<"\n">>
}

FilesOf(lines, n) == UNION {[1..k -> lines] : k \in 0..n}

PasswdFiles == FilesOf(PasswdLines, MaxLines)
GroupFiles == FilesOf(GroupLines, MaxGroupLines)

DisabledArgs == {"None", "True", "False"}

(***************************************************************************)
(* Query._get_local_users                                                  *)
(***************************************************************************)
IsActive(password) ==
    ~(password = <<"*">> \/ (password # <<>> /\ Head(password) = "!"))

Selected(disabled, active) ==
    \/ disabled = "False" /\ active
    \/ disabled = "True" /\ ~active
    \/ disabled = "None"

UserRecord(f) ==
    [uid |-> f[3], git |-> f[4], info |-> f[5], home |-> f[6],
     shell |-> f[7], disabled |-> ~IsActive(f[2])]

RECURSIVE UsersLoop(_, _, _)
UsersLoop(lines, disabled, users) ==
    IF lines = <<>> THEN Returns(users)
    ELSE LET line == Strip(Head(lines))
             f == Split(line, ":")
         IN  IF ~Contains(line, ":")
             THEN UsersLoop(Tail(lines), disabled, users)
             ELSE IF Len(f) # PasswdFieldCount
             THEN Raises("ValueError")
             ELSE IF Selected(disabled, IsActive(f[2]))
             THEN UsersLoop(Tail(lines), disabled, DictSet(users, f[1], UserRecord(f)))
             ELSE UsersLoop(Tail(lines), disabled, users)

GetLocalUsers(passwd, disabled) == UsersLoop(passwd, disabled, EmptyDict)

(***************************************************************************)
(* Query._get_local_groups                                                 *)
(***************************************************************************)
GroupRecord(f) ==
    IF f[4] # <<>>
    THEN [gid |-> f[3], users |-> Split(f[4], ",")]
    ELSE [gid |-> f[3]]

RECURSIVE GroupsLoop(_, _)
GroupsLoop(lines, groups) ==
    IF lines = <<>> THEN Returns(groups)
    ELSE LET line == Strip(Head(lines))
             f == Split(line, ":")
         IN  IF ~Contains(line, ":")
             THEN GroupsLoop(Tail(lines), groups)
             ELSE IF Len(f) # GroupFieldCount
             THEN Raises("ValueError")
             ELSE GroupsLoop(Tail(lines), DictSet(groups, f[1], GroupRecord(f)))

GetLocalGroups(group) == GroupsLoop(group, EmptyDict)

(***************************************************************************)
(* Query._get_external_accounts: "passwd -S -a" and its output             *)
(***************************************************************************)
StatusOf(login) ==
    IF login = <<"L">> THEN "Locked"
    ELSE IF login = <<"N", "P">> THEN "No password"
    ELSE IF login = <<"P">> THEN "Usable password"
    ELSE IF login = <<"L", "K">> THEN "Locked"
    ELSE NA

PasswdStatusRuns == {
    [retcode |-> 1, stdout |-> <<>>],
    [retcode |-> 0, stdout |-> <<>>],
    [retcode |-> 0,
     stdout |-> <<"a", " ", "P", "\n", "r", " ", "L", "K", "\n", "o", "\n">>],
    [retcode |-> 0,
     stdout |-> <<"b", " ", "L", " ", "0", "\n", " ", "\n", "c", " ", "Q">>]
}

RECURSIVE ExternalLoop(_, _, _)
ExternalLoop(rows, locals, users) ==
    IF rows = <<>> THEN users
    ELSE LET d == Split(Strip(Head(rows)), " ")
         IN  IF Strip(Head(rows)) = <<>> \/ Len(d) < 2
             THEN ExternalLoop(Tail(rows), locals, users)
             ELSE IF d[1] \notin locals
             THEN ExternalLoop(Tail(rows), locals,
                      DictSet(users, d[1],
                              [login |-> d[2], status |-> StatusOf(d[2])]))
             ELSE ExternalLoop(Tail(rows), locals, users)

GetExternalAccounts(locals, out) ==
    IF out.retcode # 0 THEN EmptyDict
    ELSE ExternalLoop(Split(out.stdout, "\n"), locals, EmptyDict)

(***************************************************************************)
(* Query._identity                                                         *)
(***************************************************************************)
\* x or 'N/A' for a dict x
OrNA(d) == IF DOMAIN d = {} THEN [na |-> TRUE, dict |-> EmptyDict]
                            ELSE [na |-> FALSE, dict |-> d]

Identity(passwd, group, out, disabled) ==
    LET lu == GetLocalUsers(passwd, disabled)
        lg == GetLocalGroups(group)
    IN  IF lu.exc # NoExc THEN Raises(lu.exc)
        ELSE IF lg.exc # NoExc THEN Raises(lg.exc)
        ELSE Returns([local |-> lu.val,
                      ext |-> OrNA(GetExternalAccounts(DOMAIN lu.val, out)),
                      groups |-> lg.val])

(***************************************************************************)
(* Query._software                                                         *)
(***************************************************************************)
Products == <<"p", "r", "o", "d", "u", "c", "t", "s">>
Locks == <<"l", "o", "c", "k", "s">>
Patterns == <<"p", "a", "t", "t", "e", "r", "n", "s">>
Packages == <<"p", "a", "c", "k", "a", "g", "e", "s">>
Repositories == <<"r", "e", "p", "o", "s", "i", "t", "o", "r", "i", "e", "s">>
Suse == <<"s", "u", "s", "e">>
RedHat == <<"r", "e", "d", "h", "a", "t">>

\* values of the os_family grain; an absent grain reads as None
OsFamilies == {
    [present |-> FALSE, text |-> <<>>],
    [present |-> TRUE, text |-> <<"S", "u", "s", "e">>],
    [present |-> TRUE, text |-> <<"S", "U", "S", "E">>],
    [present |-> TRUE, text |-> <<"s", "u", "s", "e">>],
    [present |-> TRUE, text |-> <<"R", "e", "d", "H", "a", "t">>],
    [present |-> TRUE, text |-> <<"r", "e", "d", "h", "a", "t">>],
    [present |-> TRUE, text |-> <<"D", "e", "b", "i", "a", "n">>]
}

\* the exclude keyword argument, when given
ExcludeArgs == {
    [present |-> FALSE, text |-> <<>>],
    [present |-> TRUE, text |-> <<>>],
    [present |-> TRUE, text |-> Locks],
    [present |-> TRUE, text |-> Join(<<Products, Patterns>>, ",")],
    [present |-> TRUE, text |-> Join(<<Packages, Repositories>>, ",")],
    [present |-> TRUE, text |-> Join(<<Locks, <<" ">> \o Patterns>>, ",")]
}

SoftwareCapabilities == {
    "pkg.list_products", "pkg.list_locks", "pkg.get_locked_packages",
    "pkg.list_installed_patterns", "pkg.group_list", "pkg.list_pkgs",
    "pkg.list_repos"
}

\* what a capability call does: returns data, returns nothing, or raises
CapabilityOutcomes == {"data", "empty", "raise"}

Excludes(exclude) ==
    IF exclude.present
    THEN {Split(exclude.text, ",")[i] : i \in 1..Len(Split(exclude.text, ","))}
    ELSE {}

\* mutant: the redhat capability is the fallback for every other family
LocksCapabilityFallback(os_family) ==
    IF os_family = Suse THEN "pkg.list_locks" ELSE "pkg.get_locked_packages"

LocksCapability(os_family) ==
    IF os_family = Suse THEN "pkg.list_locks"
    ELSE IF os_family = RedHat THEN "pkg.get_locked_packages"
    ELSE "None"

PatternsCapability(os_family) ==
    IF os_family = Suse THEN "pkg.list_installed_patterns"
    ELSE IF os_family = RedHat THEN "pkg.group_list"
    ELSE "None"

\* the capability calls _software makes, in order: capability, key of the
\* result it fills, and whether an empty answer is stored too
SoftwarePlan(os_family, excludes) ==
    (IF os_family = Suse /\ Products \notin excludes
     THEN <<[cap |-> "pkg.list_products", key |-> "products", always |-> FALSE]>>
     ELSE <<>>)
    \o
    (IF LocksCapability(os_family) # "None" /\ Locks \notin excludes
     THEN <<[cap |-> LocksCapability(os_family), key |-> "locks", always |-> FALSE]>>
     ELSE <<>>)
    \o
    (IF PatternsCapability(os_family) # "None" /\ Patterns \notin excludes
     THEN <<[cap |-> PatternsCapability(os_family), key |-> "patterns", always |-> FALSE]>>
     ELSE <<>>)
    \o
    (IF Packages \notin excludes
     THEN <<[cap |-> "pkg.list_pkgs", key |-> "packages", always |-> TRUE]>>
     ELSE <<>>)
    \o
    (IF Repositories \notin excludes
     THEN <<[cap |-> "pkg.list_repos", key |-> "repositories", always |-> FALSE]>>
     ELSE <<>>)

\* runs a plan against the capabilities: [calls, out]
RECURSIVE RunPlan(_, _, _, _)
RunPlan(plan, outcome, calls, result) ==
    IF plan = <<>> THEN [calls |-> calls, out |-> Returns(result)]
    ELSE LET step == Head(plan)
             got == outcome[step.cap]
         IN  IF got = "raise"
             THEN [calls |-> Append(calls, step.cap),
                   out |-> Raises("CommandExecutionError")]
             ELSE RunPlan(Tail(plan), outcome, Append(calls, step.cap),
                          IF got = "data" \/ step.always
                          THEN DictSet(result, step.key, got)
                          ELSE result)

Software(exclude, grain, outcome) ==
    IF ~grain.present
    THEN [calls |-> <<>>, out |-> Raises("AttributeError")]
    ELSE RunPlan(SoftwarePlan(Lower(grain.text), Excludes(exclude)),
                 outcome, <<>>, EmptyDict)

(***************************************************************************)
(* SysInfo and Query._system                                               *)
(***************************************************************************)
Solaris == <<"s", "o", "l", "a", "r", "i", "s">>

Kernels == {
    [present |-> FALSE, text |-> <<>>],
    [present |-> TRUE, text |-> <<"L", "i", "n", "u", "x">>],
    [present |-> TRUE, text |-> <<"S", "o", "l", "a", "r", "i", "s">>],
    [present |-> TRUE, text |-> <<"s", "o", "l", "a", "r", "i", "s">>]
}

\* the SysInfo getters in the order _system calls them, and how each can fail
SystemSteps == <<"cpu", "disks", "mounts", "memory", "network", "os">>

SystemFailures(step) ==
    IF step = "cpu" THEN {"CommandExecutionError", "ValueError"}
    ELSE IF step = "disks" THEN {"CommandExecutionError", "SIException", "ValueError"}
    ELSE IF step = "mounts" THEN {"CommandExecutionError"}
    ELSE IF step = "memory" THEN {"SIException", "ValueError"}
    ELSE {}

\* what the host does to a _system run: every getter succeeds (failAt = 0)
\* or getter number failAt raises exc
SystemRuns ==
    {[failAt |-> 0, exc |-> NoExc]}
    \cup UNION {{[failAt |-> i, exc |-> e] : e \in SystemFailures(SystemSteps[i])} :
                    i \in 1..Len(SystemSteps)}

SysInfoInit(kernel) ==
    IF ~kernel.present THEN "AttributeError"
    ELSE IF Lower(kernel.text) = Solaris THEN "SIException"
    ELSE NoExc

System(kernel, run) ==
    IF SysInfoInit(kernel) # NoExc
    THEN [calls |-> <<"SysInfo">>, out |-> Raises(SysInfoInit(kernel))]
    ELSE IF run.failAt = 0
    THEN [calls |-> <<"SysInfo">> \o SystemSteps,
          out |-> Returns([s \in {SystemSteps[i] : i \in 1..Len(SystemSteps)} |-> "data"])]
    ELSE [calls |-> <<"SysInfo">> \o SubSeq(SystemSteps, 1, run.failAt),
          out |-> Raises(run.exc)]

(***************************************************************************)
(* Query._services                                                         *)
(***************************************************************************)
ServiceCapabilities == <<"service.get_enabled", "service.get_disabled">>

Services(outcome) ==
    IF outcome["service.get_enabled"] = "raise"
    THEN [calls |-> SubSeq(ServiceCapabilities, 1, 1),
          out |-> Raises("CommandExecutionError")]
    ELSE IF outcome["service.get_disabled"] = "raise"
    THEN [calls |-> ServiceCapabilities, out |-> Raises("CommandExecutionError")]
    ELSE [calls |-> ServiceCapabilities,
          out |-> Returns([enabled |-> outcome["service.get_enabled"],
                           disabled |-> outcome["service.get_disabled"]])]

(***************************************************************************)
(* Query._configuration and the store behind self.db                       *)
(***************************************************************************)
PkgNames == {"p", "q"}
ConfigLists == {<<>>, <<"/etc/a">>, <<"/etc/a", "/etc/b">>}

\* the store: rows of inspector_pkg with the paths inspector_pkg_cfg_files
\* holds for each, and which query the store fails on: none (0), the SELECT
\* of the packages (1), or the SELECT of the files of row failAt - 1
Stores ==
    UNION {{[rows |-> r, failAt |-> f] :
                r \in [1..n -> [name : PkgNames, configs : ConfigLists]],
                f \in 0..(n + 1)} : n \in 0..MaxPkgs}

RECURSIVE ConfigLoop(_, _)
ConfigLoop(rows, result) ==
    IF rows = <<>> THEN result
    ELSE ConfigLoop(Tail(rows), DictSet(result, Head(rows).name, Head(rows).configs))

\* [db, out]: the state the handle is left in, and the outcome
Configuration(store) ==
    IF store.failAt # 0
    THEN [db |-> "open", out |-> Raises("OperationalError")]
    ELSE IF store.rows = <<>>
    THEN [db |-> "closed", out |-> Raises("InspectorQueryException")]
    ELSE [db |-> "closed", out |-> Returns(ConfigLoop(store.rows, EmptyDict))]

(***************************************************************************)
(* Query._payload, Query._changes                                          *)
(***************************************************************************)
Payload == Returns(EmptyDict)

Changes == Raises("Exception")

(***************************************************************************)
(* Query.__init__                                                          *)
(***************************************************************************)
SCOPES == <<"changes", "configuration", "identity", "system", "software",
            "services", "payload", "all">>

ScopeArgs ==
    {SCOPES[i] : i \in 1..Len(SCOPES)}
    \cup {"", "ALL", "_all", "config", "id_resolv"}

\* mutant: only an empty scope name is refused
ValidScopeNonEmpty(s) == s # ""

ValidScope(s) == \E i \in 1..Len(SCOPES) : SCOPES[i] = s

QueryAttrs == {"scope", "db", "local_identity"}

Init ==
    /\ pc = "new"
    /\ attrs = {}
    /\ scope = "none"
    /\ db = "none"
    /\ local_identity = EmptyDict
    /\ op = "none"
    /\ args = EmptyDict
    /\ data = EmptyDict
    /\ invoked = <<>>
    /\ ret = NoRet

Construct(s) ==
    /\ pc = "new"
    /\ op' = "__init__"
    /\ args' = [scope |-> s]
    /\ IF ~ValidScope(s)
       THEN /\ pc' = "failed"
            /\ ret' = Raises("InspectorQueryException")
            /\ UNCHANGED <<attrs, scope, db, local_identity>>
       ELSE /\ pc' = "idle"
            /\ scope' = "_" \o s
            /\ db' = "closed"
            /\ local_identity' = EmptyDict
            /\ attrs' = QueryAttrs
            /\ ret' = NoRet
    /\ UNCHANGED <<data, invoked>>

(***************************************************************************)
(* Query.__call__: the scope's handler runs and the caller gets its        *)
(* outcome.                                                                *)
(***************************************************************************)
Finish(name, a, calls, out) ==
    /\ op' = name
    /\ args' = a
    /\ invoked' = calls
    /\ ret' = out
    /\ pc' = "done"

CallChanges ==
    /\ pc = "idle" /\ scope = "_changes"
    /\ Finish("_changes", EmptyDict, <<>>, Changes)
    /\ UNCHANGED <<attrs, scope, db, local_identity, data>>

CallConfiguration ==
    /\ pc = "idle" /\ scope = "_configuration"
    /\ \E store \in Stores :
          /\ Finish("_configuration", [store |-> store], <<>>, Configuration(store).out)
          /\ db' = Configuration(store).db
    /\ UNCHANGED <<attrs, scope, local_identity, data>>

CallIdentity ==
    /\ pc = "idle" /\ scope = "_identity"
    /\ \E passwd \in PasswdFiles, group \in GroupFiles,
          out \in PasswdStatusRuns, disabled \in DisabledArgs :
          Finish("_identity",
                 [passwd |-> passwd, group |-> group, out |-> out, disabled |-> disabled],
                 <<>>, Identity(passwd, group, out, disabled))
    /\ UNCHANGED <<attrs, scope, db, local_identity, data>>

CallSystem ==
    /\ pc = "idle" /\ scope = "_system"
    /\ \E kernel \in Kernels, run \in SystemRuns :
          Finish("_system", [kernel |-> kernel],
                 System(kernel, run).calls, System(kernel, run).out)
    /\ UNCHANGED <<attrs, scope, db, local_identity, data>>

CallSoftware ==
    /\ pc = "idle" /\ scope = "_software"
    /\ \E exclude \in ExcludeArgs, grain \in OsFamilies,
          outcome \in [SoftwareCapabilities -> CapabilityOutcomes] :
          Finish("_software", [exclude |-> exclude, os_family |-> grain],
                 Software(exclude, grain, outcome).calls,
                 Software(exclude, grain, outcome).out)
    /\ UNCHANGED <<attrs, scope, db, local_identity, data>>

CallServices ==
    /\ pc = "idle" /\ scope = "_services"
    /\ \E outcome \in [{"service.get_enabled", "service.get_disabled"} -> CapabilityOutcomes] :
          Finish("_services", EmptyDict, Services(outcome).calls, Services(outcome).out)
    /\ UNCHANGED <<attrs, scope, db, local_identity, data>>

CallPayload ==
    /\ pc = "idle" /\ scope = "_payload"
    /\ Finish("_payload", EmptyDict, <<>>, Payload)
    /\ UNCHANGED <<attrs, scope, db, local_identity, data>>

\* the caller takes the outcome; the instance is ready for the next call
Return ==
    /\ pc = "done"
    /\ pc' = "idle"
    /\ op' = "none"
    /\ args' = EmptyDict
    /\ data' = EmptyDict
    /\ invoked' = <<>>
    /\ ret' = NoRet
    /\ UNCHANGED <<attrs, scope, db, local_identity>>

(***************************************************************************)
(* Query._all: one step per sub-collector, in the order of the code        *)
(***************************************************************************)
AllOrder == <<"_software", "_system", "_services", "_configuration", "_payload">>

\* mutant: the failure of a sub-collector is dropped and _all goes on
PropagateSwallowed(out, next) == [pc |-> next, ret |-> NoRet]

\* a plain call: an exception leaves _all, a value lets it go on
Propagate(out, next) ==
    IF out.exc # NoExc THEN [pc |-> "done", ret |-> out]
                       ELSE [pc |-> next, ret |-> NoRet]

\* mutant: no try/except around the configuration sub-scope
TryConfigurationUnguarded(out) ==
    IF out.exc = NoExc
    THEN [pc |-> "all_payload", ret |-> NoRet, field |-> [na |-> FALSE, dict |-> out.val]]
    ELSE [pc |-> "done", ret |-> out, field |-> [na |-> TRUE, dict |-> EmptyDict]]

\* try: ... except InspectorQueryException: 'N/A'
TryConfiguration(out) ==
    IF out.exc = NoExc
    THEN [pc |-> "all_payload", ret |-> NoRet, field |-> [na |-> FALSE, dict |-> out.val]]
    ELSE IF out.exc = "InspectorQueryException"
    THEN [pc |-> "all_payload", ret |-> NoRet, field |-> [na |-> TRUE, dict |-> EmptyDict]]
    ELSE [pc |-> "done", ret |-> out, field |-> [na |-> TRUE, dict |-> EmptyDict]]

AllSoftware ==
    /\ pc = "idle" /\ scope = "_all"
    /\ \E exclude \in ExcludeArgs, grain \in OsFamilies,
          outcome \in [SoftwareCapabilities -> CapabilityOutcomes] :
          LET r == Software(exclude, grain, outcome)
              go == Propagate(r.out, "all_system")
          IN  /\ op' = "_all"
              /\ args' = [exclude |-> exclude, os_family |-> grain, _software |-> r.out]
              /\ invoked' = <<"_software">> \o r.calls
              /\ pc' = go.pc
              /\ ret' = go.ret
              /\ data' = IF r.out.exc = NoExc
                         THEN DictSet(EmptyDict, "software", r.out.val)
                         ELSE EmptyDict
    /\ UNCHANGED <<attrs, scope, db, local_identity>>

AllSystem ==
    /\ pc = "all_system"
    /\ \E kernel \in Kernels, run \in SystemRuns :
          LET r == System(kernel, run)
              go == Propagate(r.out, "all_services")
          IN  /\ args' = DictSet(args, "_system", r.out)
              /\ invoked' = invoked \o <<"_system">> \o r.calls
              /\ pc' = go.pc
              /\ ret' = go.ret
              /\ data' = IF r.out.exc = NoExc
                         THEN DictSet(data, "system", r.out.val)
                         ELSE data
    /\ UNCHANGED <<attrs, scope, db, local_identity, op>>

AllServices ==
    /\ pc = "all_services"
    /\ \E outcome \in [{"service.get_enabled", "service.get_disabled"} -> CapabilityOutcomes] :
          LET r == Services(outcome)
              go == Propagate(r.out, "all_configuration")
          IN  /\ args' = DictSet(args, "_services", r.out)
              /\ invoked' = invoked \o <<"_services">> \o r.calls
              /\ pc' = go.pc
              /\ ret' = go.ret
              /\ data' = IF r.out.exc = NoExc
                         THEN DictSet(data, "services", r.out.val)
                         ELSE data
    /\ UNCHANGED <<attrs, scope, db, local_identity, op>>

AllConfiguration ==
    /\ pc = "all_configuration"
    /\ \E store \in Stores :
          LET r == Configuration(store)
              go == TryConfiguration(r.out)
          IN  /\ args' = DictSet(args, "_configuration", r.out)
              /\ invoked' = Append(invoked, "_configuration")
              /\ db' = r.db
              /\ pc' = go.pc
              /\ ret' = go.ret
              /\ data' = IF go.pc = "done" THEN data
                         ELSE DictSet(data, "configuration", go.field)
    /\ UNCHANGED <<attrs, scope, local_identity, op>>

AllPayload ==
    /\ pc = "all_payload"
    /\ args' = DictSet(args, "_payload", Payload)
    /\ invoked' = Append(invoked, "_payload")
    /\ data' = DictSet(data, "payload", OrNA(Payload.val))
    /\ ret' = Returns(data')
    /\ pc' = "done"
    /\ UNCHANGED <<attrs, scope, db, local_identity, op>>

(***************************************************************************)
(* Query._id_resolv                                                        *)
(***************************************************************************)
Ids == 0..MaxId

\* the lazy fill of self.local_identity: [cache, exc, reads]
Populate(cache, passwd, group) ==
    IF DOMAIN cache # {}
    THEN [cache |-> cache, exc |-> NoExc, reads |-> <<>>]
    ELSE LET lu == GetLocalUsers(passwd, "None")
             lg == GetLocalGroups(group)
         IN  IF lu.exc # NoExc
             THEN [cache |-> cache, exc |-> lu.exc, reads |-> <<"/etc/passwd">>]
             ELSE IF lg.exc # NoExc
             THEN [cache |-> DictSet(cache, "users", lu.val), exc |-> lg.exc,
                   reads |-> <<"/etc/passwd", "/etc/group">>]
             ELSE [cache |-> DictSet(DictSet(cache, "users", lu.val), "groups", lg.val),
                   exc |-> NoExc, reads |-> <<"/etc/passwd", "/etc/group">>]

\* the for loop over the items of one table, taken in the given order
RECURSIVE Scan(_, _, _, _)
Scan(table, order, iid, uid) ==
    IF order = <<>> THEN Returns([named |-> FALSE, id |-> iid, name |-> <<>>])
    ELSE LET name == Head(order)
             text == IF uid THEN table[name].uid ELSE table[name].gid
         IN  IF ~CanParseInt(text) THEN Raises("ValueError")
             ELSE IF ParseInt(text) = iid
             THEN Returns([named |-> TRUE, id |-> iid, name |-> name])
             ELSE Scan(table, Tail(order), iid, uid)

Tables(cache, uid) ==
    LET key == IF uid THEN "users" ELSE "groups"
    IN  IF key \in DOMAIN cache THEN {cache[key]} ELSE {}

IdResolv ==
    /\ pc = "idle"
    /\ \E iid \in Ids, named \in BOOLEAN, uid \in BOOLEAN,
          passwd \in IF DOMAIN local_identity = {} THEN PasswdFiles ELSE {<<>>},
          group \in IF DOMAIN local_identity = {} THEN GroupFiles ELSE {<<>>} :
          LET p == Populate(local_identity, passwd, group)
              a == [iid |-> iid, named |-> named, uid |-> uid, reads |-> p.reads,
                    before |-> local_identity]
          IN  /\ local_identity' = p.cache
              /\ IF p.exc # NoExc
                 THEN Finish("_id_resolv", a, <<>>, Raises(p.exc))
                 ELSE IF ~named
                 THEN Finish("_id_resolv", a, <<>>,
                             Returns([named |-> FALSE, id |-> iid, name |-> <<>>]))
                 ELSE IF Tables(p.cache, uid) = {}
                 THEN Finish("_id_resolv", a, <<>>, Raises("KeyError"))
                 ELSE \E table \in Tables(p.cache, uid) :
                         \E order \in ItemOrders(table) :
                            Finish("_id_resolv", a, <<>>, Scan(table, order, iid, uid))
    /\ UNCHANGED <<attrs, scope, db, data>>

(***************************************************************************)
(* Specifications                                                          *)
(***************************************************************************)
Next ==
    \/ \E s \in ScopeArgs : Construct(s)
    \/ CallChanges
    \/ CallConfiguration
    \/ CallIdentity
    \/ CallSystem
    \/ CallSoftware
    \/ CallServices
    \/ CallPayload
    \/ AllSoftware
    \/ AllSystem
    \/ AllServices
    \/ AllConfiguration
    \/ AllPayload
    \/ Return

Spec == Init /\ [][Next]_vars

\* _id_resolv is no scope: it is called on the instance, and shares only
\* self.local_identity with the rest of the class
NextResolv ==
    \/ \E s \in ScopeArgs : Construct(s)
    \/ IdResolv
    \/ Return

SpecResolv == Init /\ [][NextResolv]_vars

(***************************************************************************)
(* Properties                                                              *)
(***************************************************************************)
Sentinel == [na |-> TRUE, dict |-> EmptyDict]
AsProduced(v) == [na |-> FALSE, dict |-> v]

ConfigurationHadNoData ==
    /\ op = "_all"
    /\ "_configuration" \in DOMAIN args
    /\ args["_configuration"].exc = "InspectorQueryException"

\* C1: whenever the configuration collector has returned or raised, the
\* store handle it opened is closed again.  The collector runs as one step,
\* so the handle must not be open in any state.
C1_HandleReleased == db # "open"

\* C2 as written: when the configuration sub-scope raises NoDataError inside
\* _all, the aggregate completes and returns configuration = sentinel with
\* software, system, services and payload as their collectors produced them.
C2_AllFieldsAsProduced ==
    ConfigurationHadNoData =>
        /\ pc \in {"all_payload", "done"}
        /\ pc = "done" =>
              /\ ret.exc = NoExc
              /\ ret.val["configuration"] = Sentinel
              /\ ret.val["software"] = args["_software"].val
              /\ ret.val["system"] = args["_system"].val
              /\ ret.val["services"] = args["_services"].val
              /\ ret.val["payload"] = AsProduced(args["_payload"].val)

\* C2 amended: when the configuration sub-scope raises NoDataError inside
\* _all, the aggregate completes and returns configuration = sentinel 'N/A',
\* software, system and services as their collectors produced them, and
\* payload = sentinel 'N/A' in place of the payload collector's empty dict.
C2_ToleratesNoData ==
    ConfigurationHadNoData =>
        /\ pc \in {"all_payload", "done"}
        /\ pc = "done" =>
              /\ ret.exc = NoExc
              /\ DOMAIN ret.val = {"software", "system", "services",
                                   "configuration", "payload"}
              /\ ret.val["configuration"] = Sentinel
              /\ ret.val["software"] = args["_software"].val
              /\ ret.val["system"] = args["_system"].val
              /\ ret.val["services"] = args["_services"].val
              /\ args["_payload"].val = EmptyDict
              /\ ret.val["payload"] = Sentinel

C2_Witness == ConfigurationHadNoData /\ pc = "done" /\ ret.exc = NoExc

IsCollector(x) == \E i \in 1..Len(AllOrder) : AllOrder[i] = x
CollectorsInvoked == SelectSeq(invoked, IsCollector)

Fatal(c) ==
    /\ c \in DOMAIN args
    /\ args[c].exc # NoExc
    /\ ~(c = "_configuration" /\ args[c].exc = "InspectorQueryException")

\* C3: _all invokes software, system, services, configuration, payload in
\* that order, and a failure of any of them other than the configuration
\* sub-scope's NoDataError ends _all with that exception: nothing is
\* returned and the failing collector is the last one invoked.
C3_FailurePropagates ==
    op = "_all" =>
        /\ CollectorsInvoked = SubSeq(AllOrder, 1, Len(CollectorsInvoked))
        /\ \A i \in 1..Len(AllOrder) :
              Fatal(AllOrder[i]) =>
                  /\ pc = "done"
                  /\ ret = Raises(args[AllOrder[i]].exc)
                  /\ Len(CollectorsInvoked) = i
        /\ (pc = "done" /\ ret.exc = NoExc) => CollectorsInvoked = AllOrder

C3_Witness ==
    /\ op = "_all" /\ pc = "done"
    /\ Fatal("_system")
    /\ args["_system"].exc = "SIException"
    /\ CollectorsInvoked = <<"_software", "_system">>

TheScopes == {"changes", "configuration", "identity", "system", "software",
              "services", "payload", "all"}

C4_Constructed ==
    /\ pc = "failed" =>
          /\ args.scope \notin TheScopes
          /\ ret.exc = "InspectorQueryException"
          /\ attrs = {} /\ db = "none" /\ scope = "none"
    /\ pc \notin {"new", "failed"} =>
          /\ attrs = {"scope", "db", "local_identity"}
          /\ \E s \in TheScopes : scope = "_" \o s

\* C4: constructing a Query with a string outside the 8 scopes raises
\* InspectorQueryException before the store handle or the identity cache
\* exists; with one of the 8 scopes it succeeds, and the stored scope never
\* changes afterwards.
C4_ScopeValidated ==
    /\ []C4_Constructed
    /\ [][pc \notin {"new", "failed"} => scope' = scope]_vars

C4_Witness == pc = "failed" /\ args.scope = "ALL" /\ attrs = {}

SuseSpellings == {<<"S", "u", "s", "e">>, <<"S", "U", "S", "E">>, <<"s", "u", "s", "e">>}
RedHatSpellings == {<<"R", "e", "d", "H", "a", "t">>, <<"r", "e", "d", "h", "a", "t">>}
SuseOnly == {"pkg.list_products", "pkg.list_locks", "pkg.list_installed_patterns"}
RedHatOnly == {"pkg.get_locked_packages", "pkg.group_list"}
Called == {invoked[i] : i \in 1..Len(invoked)}

\* C10: the capabilities a software query invokes follow the OS family,
\* whatever its letter case: none of the suse-only ones on redhat, none of
\* the redhat-only ones on suse, no locks or patterns capability elsewhere.
C10_FamilyStrategy ==
    (op \in {"_software", "_all"} /\ "os_family" \in DOMAIN args) =>
        LET family == args["os_family"]
        IN  /\ (family.present /\ family.text \in RedHatSpellings)
                   => Called \cap SuseOnly = {}
            /\ (family.present /\ family.text \in SuseSpellings)
                   => Called \cap RedHatOnly = {}
            /\ (~family.present \/ family.text \notin SuseSpellings \cup RedHatSpellings)
                   => Called \cap (SuseOnly \cup RedHatOnly) = {}

C10_Witness ==
    /\ op = "_software" /\ pc = "done"
    /\ args["os_family"].text = <<"R", "e", "d", "H", "a", "t">>
    /\ {"pkg.get_locked_packages", "pkg.group_list"} \subseteq Called

Echo(iid) == [named |-> FALSE, id |-> iid, name |-> <<>>]

\* the names a table maps to the id, for tables whose ids are all numeric
Matches(table, iid, uid) ==
    {n \in DOMAIN table :
        LET text == IF uid THEN table[n].uid ELSE table[n].gid
        IN  CanParseInt(text) /\ ParseInt(text) = iid}

\* C5: with the cache holding both tables, _id_resolv never fails: named
\* and a matching entry give that entry's name, named and no match give the
\* id back, and named = false gives the id back whatever the cache holds.
C5_ResolutionTotal ==
    (pc = "done" /\ op = "_id_resolv"
        /\ DOMAIN local_identity = {"users", "groups"}) =>
        LET table == local_identity[IF args.uid THEN "users" ELSE "groups"]
            found == Matches(table, args.iid, args.uid)
        IN  /\ ret.exc = NoExc
            /\ ~args.named => ret.val = Echo(args.iid)
            /\ (args.named /\ found = {}) => ret.val = Echo(args.iid)
            /\ (args.named /\ found # {}) => (ret.val.named /\ ret.val.name \in found)

\* C6: the identity cache goes from empty to populated once, on a call that
\* reads both files; populated, it holds the users and the groups table, and
\* a call that finds it populated reads no file and leaves it as it was.
C6_CachePopulatedOnce ==
    (pc = "done" /\ op = "_id_resolv") =>
        /\ DOMAIN local_identity \in {{}, {"users", "groups"}}
        /\ DOMAIN args.before # {} =>
              (args.reads = <<>> /\ local_identity = args.before)
        /\ (DOMAIN args.before = {} /\ DOMAIN local_identity # {}) =>
              args.reads = <<"/etc/passwd", "/etc/group">>

WellFormed(line, n) ==
    Contains(Strip(line), ":") /\ Len(Split(Strip(line), ":")) = n

Fields(line) == Split(Strip(line), ":")

\* C7: a line of the account or group file without a colon, or with a field
\* count other than 7 (accounts) or 4 (groups), is skipped without an error,
\* and the well-formed lines of the file still yield their records.
C7_MalformedLinesSkipped ==
    (pc = "done" /\ op = "_identity") =>
        /\ ret.exc = NoExc
        /\ \A i \in 1..Len(args.passwd) :
              (/\ WellFormed(args.passwd[i], PasswdFieldCount)
               /\ Selected(args.disabled, IsActive(Fields(args.passwd[i])[2])))
                  => Fields(args.passwd[i])[1] \in DOMAIN ret.val.local
        /\ \A i \in 1..Len(args.group) :
              WellFormed(args.group[i], GroupFieldCount)
                  => Fields(args.group[i])[1] \in DOMAIN ret.val.groups

LocalNames(passwd) ==
    {Fields(passwd[i])[1] : i \in {j \in 1..Len(passwd) :
                                      WellFormed(passwd[j], PasswdFieldCount)}}

\* C8: whatever the disabled filter, no account of the account file shows
\* up among the external accounts; and when passwd -S -a exits non-zero the
\* external accounts are empty and the identity scope still returns.
C8_ExternalExcludesLocal ==
    (pc = "done" /\ op = "_identity" /\ ret.exc = NoExc) =>
        /\ LocalNames(args.passwd) \cap DOMAIN ret.val.ext.dict = {}
        /\ args.out.retcode # 0 => ret.val.ext = Sentinel

\* C9: a well-formed account line yields, under its name, a record with uid,
\* gid, info, home and shell from fields 3 to 7 and disabled from the
\* password field, and the record is in the result exactly when the
\* disabled filter selects it.
C9_AccountRecord ==
    (pc = "done" /\ op = "_identity" /\ ret.exc = NoExc) =>
        \A i \in 1..Len(args.passwd) :
            (/\ WellFormed(args.passwd[i], PasswdFieldCount)
             /\ \A j \in (i + 1)..Len(args.passwd) :
                   WellFormed(args.passwd[j], PasswdFieldCount)
                       => Fields(args.passwd[j])[1] # Fields(args.passwd[i])[1]) =>
                LET f == Fields(args.passwd[i])
                    off == f[2] = <<"*">> \/ (f[2] # <<>> /\ Head(f[2]) = "!")
                    wanted == \/ args.disabled = "None"
                              \/ args.disabled = "True" /\ off
                              \/ args.disabled = "False" /\ ~off
                IN  /\ f[1] \in DOMAIN ret.val.local <=> wanted
                    /\ wanted => ret.val.local[f[1]] =
                                    [uid |-> f[3], gid |-> f[4], info |-> f[5],
                                     home |-> f[6], shell |-> f[7], disabled |-> off]

====
